---- MODULE Spec2Model ----
(***************************************************************************)
(* Model of the two build descriptions of nc2:                             *)
(*   - src/Dockerfile: the image build, one instruction at a time, with    *)
(*     the file ownership, accounts, search path and installed components  *)
(*     each instruction leaves behind;                                     *)
(*   - src/wasm/www/webpack.config.js: the bundle step that the            *)
(*     configuration object drives (make, seal, emit, exit).               *)
(* The two builds share no state and interleave freely.                    *)
(***************************************************************************)
EXTENDS Integers, Sequences, FiniteSets, TLC

VARIABLES
    (* image build *)
    step,        \* index into Recipe of the next instruction
    build,       \* "building" | "failed" | "done"
    stages,      \* names of the finished build stages (FROM ... as <name>)
    user,        \* account the next RUN executes as (USER)
    workdir,     \* current working directory (WORKDIR)
    envPath,     \* PATH, a sequence of directories (ENV)
    installed,   \* components present in the image
    owner,       \* path -> owning account, for the paths that exist
    accounts,    \* account -> groups
    cmdFailed,   \* lines whose command (or a command of its pipeline) failed
    failReason,  \* why the build failed: "none" | "command" | "notfound" | "permission"
    (* bundle step *)
    www,         \* source directory: file name -> content, for the files present
    imports,     \* modules the entry file imports
    config,      \* the loaded configuration object: << >> before the load, << object >> after
    phase,       \* "idle" | "loaded" | "made" | "sealed" | "emitted"
    modules,     \* modules built by the make phase
    assets,      \* compilation.assets: file name -> content
    errors,      \* compilation.errors
    dist,        \* output directory: whether it exists, and file name -> content
    exitCode,    \* exit code of the last finished run, -1 before any
    runs         \* finished runs of the bundle step

imageVars == <<step, build, stages, user, workdir, envPath, installed, owner,
               accounts, cmdFailed, failReason>>
bundleVars == <<www, imports, config, phase, modules, assets, errors, dist,
                exitCode, runs>>
vars == <<imageVars, bundleVars>>

(***************************************************************************)
(* Bounds                                                                  *)
(***************************************************************************)
MaxLen == 1      \* longest source file content, in bytes
MaxRuns == 2     \* runs of the bundle step

Byte == 0..1
Contents == UNION {[1..n -> Byte] : n \in 1..MaxLen}

(***************************************************************************)
(* src/Dockerfile                                                          *)
(***************************************************************************)
AptInstallBase == "apt install -y python3 python3-dev curl gcc pkg-config libssl-dev xvfb libxi6 libnss3 wget"
ChromeDeb == "google-chrome-stable_current_amd64.deb"
CargoBin == "/home/app/.cargo/bin"


FromRust     == [line |-> 1,  op |-> "FROM", image |-> "rust:slim-buster", as |-> "rust"]
FromDebian   == [line |-> 3,  op |-> "FROM", image |-> "debian:stable-slim", as |-> ""]
AptUpdate    == [line |-> 4,  op |-> "RUN", cmd |-> "apt update"]
AptBase      == [line |-> 5,  op |-> "RUN", cmd |-> AptInstallBase]
NodeSource   == [line |-> 6,  op |-> "RUNPIPE", cmd |-> "curl -sL https://deb.nodesource.com/setup_14.x",
                 into |-> "bash -"]
AptNodejs    == [line |-> 7,  op |-> "RUN", cmd |-> "apt install -y nodejs"]
WgetChrome   == [line |-> 8,  op |-> "RUN", cmd |-> "wget google-chrome-stable_current_amd64.deb"]
AptChrome    == [line |-> 9,  op |-> "RUN", cmd |-> "apt install -y ./google-chrome-stable_current_amd64.deb"]
AddUser      == [line |-> 11, op |-> "RUN", cmd |-> "adduser app"]
UserApp      == [line |-> 12, op |-> "USER", name |-> "app"]
WorkdirHome  == [line |-> 13, op |-> "WORKDIR", dir |-> "/home/app"]
CopyCargoNoChown ==
    [line |-> 14, op |-> "COPY", from |-> "rust", chown |-> "root",
     src |-> "/usr/local/cargo", dst |-> "/home/app/.cargo"]
CopyCargoOutsideHome ==
    [line |-> 14, op |-> "COPY", from |-> "rust", chown |-> "app",
     src |-> "/usr/local/cargo", dst |-> "/usr/local/cargo"]
CopyCargo    == [line |-> 14, op |-> "COPY", from |-> "rust", chown |-> "app",
                 src |-> "/usr/local/cargo", dst |-> "/home/app/.cargo"]
EnvPath      == [line |-> 15, op |-> "ENV", name |-> "PATH", prepend |-> CargoBin]
RustupStable == [line |-> 16, op |-> "RUN", cmd |-> "rustup install stable"]
CargoWasmPack == [line |-> 17, op |-> "RUN", cmd |-> "cargo install wasm-pack"]
MkdirNc2     == [line |-> 18, op |-> "RUN", cmd |-> "mkdir nc2"]
WorkdirNc2   == [line |-> 19, op |-> "WORKDIR", dir |-> "nc2"]

\* the packaging tool installed before the toolchain
RecipeWasmPackFirst ==
    << FromRust, FromDebian, AptUpdate, AptBase, NodeSource, AptNodejs, WgetChrome,
       AptChrome, AddUser, UserApp, WorkdirHome, CopyCargo, EnvPath,
       CargoWasmPack, RustupStable, MkdirNc2, WorkdirNc2 >>
\* the account created before the browser is installed
RecipeUserFirst ==
    << FromRust, FromDebian, AptUpdate, AptBase, NodeSource, AptNodejs, AddUser,
       WgetChrome, AptChrome, UserApp, WorkdirHome, CopyCargo, EnvPath,
       RustupStable, CargoWasmPack, MkdirNc2, WorkdirNc2 >>
Recipe ==
    << FromRust, FromDebian, AptUpdate, AptBase, NodeSource, AptNodejs, WgetChrome,
       AptChrome, AddUser, UserApp, WorkdirHome, CopyCargo, EnvPath,
       RustupStable, CargoWasmPack, MkdirNc2, WorkdirNc2 >>

BasePackages == {"python3", "python3-dev", "curl", "gcc", "pkg-config", "libssl-dev",
                 "xvfb", "libxi6", "libnss3", "wget"}

\* debian:stable-slim as FROM leaves it
BaseInstalled == {"apt", "sh", "bash", "adduser", "mkdir"}
BaseOwner == [p \in {"/", "/usr", "/etc/apt", "/home", "/root"} |-> "root"]
BaseAccounts == [a \in {"root"} |-> {"root"}]
BasePath == << "/usr/local/bin", "/usr/bin", "/bin" >>

Exists(p) == p \in DOMAIN owner
Home(u) == IF u = "root" THEN "/root" ELSE "/home/" \o u
Resolve(wd, dir) ==
    IF dir = "" THEN wd
    ELSE IF SubSeq(dir, 1, 1) = "/" THEN dir
    ELSE IF wd = "/" THEN "/" \o dir
    ELSE wd \o "/" \o dir
OnPath(d) == \E i \in 1..Len(envPath) : envPath[i] = d
\* what a RUN finds when it looks a program up: the system packages, and the
\* rustup proxies (rustup, cargo) of the copied cargo directory once its bin
\* directory is on PATH
Available ==
    installed \cup
    (IF OnPath(CargoBin) /\ Exists("/home/app/.cargo") THEN {"rustup", "cargo"} ELSE {})
CanWrite(u, p) == Exists(p) /\ (u = "root" \/ owner[p] = u)

\* One shell command: whether it needs root, what it must find, whether it
\* downloads, the existing paths it writes into, the paths it creates
\* (each inside a directory it must be able to write), and what it installs.
Sem(cmd, u, wd) ==
    CASE cmd = AptUpdate.cmd ->
           [root |-> TRUE, needs |-> {"apt"}, files |-> {}, net |-> TRUE,
            writes |-> {"/etc/apt"}, creates |-> {}, provides |-> {"apt-lists"}]
      [] cmd = AptBase.cmd ->
           [root |-> TRUE, needs |-> {"apt", "apt-lists"}, files |-> {}, net |-> TRUE,
            writes |-> {"/usr"}, creates |-> {}, provides |-> BasePackages]
      [] cmd = NodeSource.into ->
           [root |-> TRUE, needs |-> {"bash", "apt", "apt-lists"}, files |-> {}, net |-> TRUE,
            writes |-> {"/etc/apt"}, creates |-> {}, provides |-> {"nodesource"}]
      [] cmd = AptNodejs.cmd ->
           [root |-> TRUE, needs |-> {"apt", "apt-lists"}, files |-> {}, net |-> TRUE,
            writes |-> {"/usr"}, creates |-> {},
            provides |-> IF "nodesource" \in installed
                         THEN {"nodejs", "nodejs-14"} ELSE {"nodejs", "nodejs-debian"}]
      [] cmd = WgetChrome.cmd ->
           [root |-> FALSE, needs |-> {"wget"}, files |-> {}, net |-> TRUE,
            writes |-> {}, creates |-> {[path |-> Resolve(wd, ChromeDeb), in |-> wd]},
            provides |-> {}]
      [] cmd = AptChrome.cmd ->
           [root |-> TRUE, needs |-> {"apt", "apt-lists"},
            files |-> {Resolve(wd, ChromeDeb)}, net |-> TRUE,
            writes |-> {"/usr"}, creates |-> {}, provides |-> {"google-chrome-stable"}]
      [] cmd = AddUser.cmd ->
           [root |-> TRUE, needs |-> {"adduser"}, files |-> {}, net |-> FALSE,
            writes |-> {"/home"}, creates |-> {}, provides |-> {}]
      [] cmd = RustupStable.cmd ->
           [root |-> FALSE, needs |-> {"rustup"}, files |-> {}, net |-> TRUE,
            writes |-> {},
            creates |-> {[path |-> Resolve(Home(u), ".rustup"), in |-> Home(u)]},
            provides |-> {"stable"}]
      [] cmd = CargoWasmPack.cmd ->
           [root |-> FALSE, needs |-> {"cargo", "stable", "gcc", "pkg-config", "libssl-dev"},
            files |-> {}, net |-> TRUE,
            writes |-> {"/home/app/.cargo"}, creates |-> {}, provides |-> {"wasm-pack"}]
      [] cmd = MkdirNc2.cmd ->
           [root |-> FALSE, needs |-> {"mkdir"}, files |-> {}, net |-> FALSE,
            writes |-> {}, creates |-> {[path |-> Resolve(wd, "nc2"), in |-> wd]},
            provides |-> {}]

\* Why the command cannot run in the current image, "none" when it can.
Refusal(sem, u) ==
    IF ~(sem.needs \subseteq Available) \/ \E f \in sem.files : ~Exists(f)
        THEN "notfound"
    ELSE IF (sem.root /\ u # "root")
            \/ (\E p \in sem.writes : ~CanWrite(u, p))
            \/ (\E c \in sem.creates : ~CanWrite(u, c.in))
        THEN "permission"
    ELSE IF \E c \in sem.creates : Exists(c.path) /\ sem.net = FALSE
        THEN "command"
    ELSE "none"

Instr == Recipe[step]
Building == build = "building" /\ step <= Len(Recipe)
Advance ==
    /\ step' = step + 1
    /\ build' = IF step = Len(Recipe) THEN "done" ELSE "building"
Abort(reason) ==
    /\ build' = "failed"
    /\ failReason' = reason
    /\ cmdFailed' = cmdFailed \cup {Instr.line}
    /\ UNCHANGED <<step, stages, user, workdir, envPath, installed, owner, accounts>>
\* the effect of a command that ran to completion
Effect(sem, cmd, u) ==
    /\ installed' = installed \cup sem.provides
    /\ owner' = [p \in DOMAIN owner \cup {c.path : c \in sem.creates}
                     \cup (IF cmd = AddUser.cmd THEN {"/home/app"} ELSE {}) |->
                   IF cmd = AddUser.cmd /\ p = "/home/app" THEN "app"
                   ELSE IF p \in DOMAIN owner THEN owner[p] ELSE u]
    /\ accounts' = IF cmd = AddUser.cmd
                   THEN [a \in DOMAIN accounts \cup {"app"} |->
                           IF a = "app" THEN {"app"} ELSE accounts[a]]
                   ELSE accounts

\* FROM <image> [as <name>]: the stage before it is finished and named; the new
\* stage starts from the base image, as root, in /.
From ==
    /\ Building /\ Instr.op = "FROM"
    /\ stages' = IF Instr.as # "" THEN stages \cup {Instr.as} ELSE stages
    /\ user' = "root" /\ workdir' = "/" /\ envPath' = BasePath
    /\ installed' = BaseInstalled /\ owner' = BaseOwner /\ accounts' = BaseAccounts
    /\ Advance
    /\ UNCHANGED <<cmdFailed, failReason>>

\* RUN <cmd>: sh -c <cmd> as the current user; a non-zero exit status ends the build.
Run ==
    /\ Building /\ Instr.op = "RUN"
    /\ LET sem == Sem(Instr.cmd, user, workdir)
           why == Refusal(sem, user)
       IN  \E netOk \in BOOLEAN :
             IF why # "none" THEN Abort(why)
             ELSE IF sem.net /\ ~netOk THEN Abort("command")
             ELSE /\ Effect(sem, Instr.cmd, user)
                  /\ Advance
                  /\ UNCHANGED <<stages, user, workdir, envPath, cmdFailed, failReason>>

\* RUN <cmd> | <into>: sh -c without pipefail; the exit status of the step is the
\* exit status of the last command of the pipeline. bash with nothing on its
\* standard input exits 0.
RunPipe ==
    /\ Building /\ Instr.op = "RUNPIPE"
    /\ LET sem == Sem(Instr.into, user, workdir)
           why == Refusal(sem, user)
       IN  \E curlOk \in BOOLEAN, scriptOk \in BOOLEAN :
             IF ~("curl" \in Available /\ curlOk)
             THEN /\ cmdFailed' = cmdFailed \cup {Instr.line}
                  /\ Advance
                  /\ UNCHANGED <<stages, user, workdir, envPath, installed, owner,
                                 accounts, failReason>>
             ELSE IF why # "none" THEN Abort(why)
             ELSE IF ~scriptOk THEN Abort("command")
             ELSE /\ Effect(sem, Instr.into, user)
                  /\ Advance
                  /\ UNCHANGED <<stages, user, workdir, envPath, cmdFailed, failReason>>

\* USER <name>
User ==
    /\ Building /\ Instr.op = "USER"
    /\ user' = Instr.name
    /\ Advance
    /\ UNCHANGED <<stages, workdir, envPath, installed, owner, accounts, cmdFailed,
                   failReason>>

\* WORKDIR <dir>: relative to the current one; created when missing, owned by
\* root or by the current user depending on the builder.
Workdir ==
    /\ Building /\ Instr.op = "WORKDIR"
    /\ LET d == Resolve(workdir, Instr.dir)
       IN  /\ workdir' = d
           /\ \E o \in {"root", user} :
                owner' = [p \in DOMAIN owner \cup {d} |->
                            IF p \in DOMAIN owner THEN owner[p] ELSE o]
    /\ Advance
    /\ UNCHANGED <<stages, user, envPath, installed, accounts, cmdFailed, failReason>>

\* COPY --from=<stage> --chown=<owner> <src> <dst>: done by the builder, whatever
\* USER is; the copy belongs to the --chown account.
Copy ==
    /\ Building /\ Instr.op = "COPY"
    /\ IF Instr.from \notin stages THEN Abort("notfound")
       ELSE /\ owner' = [p \in DOMAIN owner \cup {Instr.dst} |->
                           IF p = Instr.dst THEN Instr.chown ELSE owner[p]]
            /\ Advance
            /\ UNCHANGED <<stages, user, workdir, envPath, installed, accounts,
                           cmdFailed, failReason>>

\* ENV PATH="<dir>:$PATH"
Env ==
    /\ Building /\ Instr.op = "ENV"
    /\ envPath' = << Instr.prepend >> \o envPath
    /\ Advance
    /\ UNCHANGED <<stages, user, workdir, installed, owner, accounts, cmdFailed,
                   failReason>>

ImageInit ==
    /\ step = 1 /\ build = "building" /\ stages = {}
    /\ user = "root" /\ workdir = "/" /\ envPath = BasePath
    /\ installed = {} /\ owner = BaseOwner /\ accounts = BaseAccounts
    /\ cmdFailed = {} /\ failReason = "none"


(***************************************************************************)
(* src/wasm/www/webpack.config.js                                          *)
(***************************************************************************)
\* the variant that enables native asynchronous WebAssembly instead of the loader
WebpackConfigNative ==
    [entry |-> "./index.js",
     output |-> [path |-> "dist", filename |-> "index.js"],
     mode |-> "development",
     module |-> [rules |-> << >>],
     experiments |-> [asyncWebAssembly |-> TRUE],
     plugins |-> << [plugin |-> "CopyWebpackPlugin",
                     patterns |-> << [from |-> "index.html", to |-> "index.html"] >>] >>]
\* the loader rule kept and the native flag added
WebpackConfigBoth ==
    [entry |-> "./index.js",
     output |-> [path |-> "dist", filename |-> "index.js"],
     mode |-> "development",
     module |-> [rules |-> << [test |-> ".wasm", use |-> "wasm-loader"] >>],
     experiments |-> [asyncWebAssembly |-> TRUE],
     plugins |-> << [plugin |-> "CopyWebpackPlugin",
                     patterns |-> << [from |-> "index.html", to |-> "index.html"] >>] >>]
\* the copy pattern given a transform
WebpackConfigTransform ==
    [entry |-> "./index.js",
     output |-> [path |-> "dist", filename |-> "index.js"],
     mode |-> "development",
     module |-> [rules |-> << [test |-> ".wasm", use |-> "wasm-loader"] >>],
     plugins |-> << [plugin |-> "CopyWebpackPlugin",
                     patterns |-> << [from |-> "index.html", to |-> "index.html",
                                      transform |-> "minify"] >>] >>]
\* module.exports
WebpackConfig ==
    [entry |-> "./index.js",
     output |-> [path |-> "dist", filename |-> "index.js"],
     mode |-> "development",
     module |-> [rules |-> << [test |-> ".wasm", use |-> "wasm-loader"] >>],
     plugins |-> << [plugin |-> "CopyWebpackPlugin",
                     patterns |-> << [from |-> "index.html", to |-> "index.html"] >>] >>]

WasmFile == "nc2_bg.wasm"
WasmBytes == << 0, 1 >>
Runtime == << 7 >>          \* the bundle's bootstrap code
MissingStub == << 9 >>      \* what stands in a bundle for a module that was not found

Cfg == config[1]
\* experiments is optional; without the key nothing experimental is enabled
Experiments(cfg) ==
    IF "experiments" \in DOMAIN cfg THEN cfg.experiments ELSE [asyncWebAssembly |-> FALSE]
\* entry "./index.js" is resolved against the directory of the configuration
EntryFile(cfg) ==
    IF SubSeq(cfg.entry, 1, 2) = "./" THEN SubSeq(cfg.entry, 3, Len(cfg.entry))
    ELSE cfg.entry
\* test: /\.wasm$/
Matches(rule, name) ==
    /\ Len(name) >= Len(rule.test)
    /\ SubSeq(name, Len(name) - Len(rule.test) + 1, Len(name)) = rule.test
LoaderStrategy(cfg) ==
    \E i \in 1..Len(cfg.module.rules) :
        Matches(cfg.module.rules[i], WasmFile) /\ cfg.module.rules[i].use = "wasm-loader"
NativeStrategy(cfg) == Experiments(cfg).asyncWebAssembly
\* optimization.emitOnErrors is not set: it defaults to true unless mode is production
EmitOnErrors(cfg) == cfg.mode # "production"
\* output.filename: a plain name, with no placeholder to fill in
OutputName(cfg) == cfg.output.filename
\* a copy pattern without a transform copies the bytes as they are
ApplyPattern(pat, bytes) ==
    IF "transform" \in DOMAIN pat THEN SubSeq(bytes, 1, Len(bytes) - 1) ELSE bytes
\* wasm-loader turns the binary into JavaScript that carries the bytes
InlineWasm(bytes) == << 8, Len(bytes) >> \o bytes

\* How an imported .wasm module is built: "inline" through the loader, "asset"
\* natively, "error" when nothing handles it or when the loader's JavaScript is
\* handed to the native WebAssembly parser.
WasmKind(cfg) ==
    IF LoaderStrategy(cfg) /\ ~NativeStrategy(cfg) THEN "inline"
    ELSE IF NativeStrategy(cfg) /\ ~LoaderStrategy(cfg) THEN "asset"
    ELSE "error"

Overlay(f, g) == [n \in DOMAIN f \cup DOMAIN g |-> IF n \in DOMAIN g THEN g[n] ELSE f[n]]
NoFiles == [n \in {} |-> << >>]

\* the run starts: webpack requires the configuration file
LoadConfig ==
    /\ phase = "idle" /\ runs < MaxRuns
    /\ config' = << WebpackConfig >>
    /\ phase' = "loaded"
    /\ modules' = NoFiles /\ assets' = NoFiles /\ errors' = {}
    /\ UNCHANGED <<www, imports, dist, exitCode, runs>>

\* make: the entry is resolved and its module graph built. A module that cannot
\* be resolved or parsed is an error of the compilation, which goes on.
Make ==
    /\ phase = "loaded"
    /\ LET entry == EntryFile(Cfg)
           found == entry \in DOMAIN www
           wasm  == IF found THEN imports ELSE {}
           kind  == WasmKind(Cfg)
       IN  /\ modules' =
                [n \in (IF found THEN {entry} ELSE {})
                       \cup (IF kind # "error" THEN wasm ELSE {}) |->
                   IF n = entry THEN [kind |-> "js", bytes |-> www[n]]
                   ELSE [kind |-> kind, bytes |-> www[n]]]
           /\ errors' = (IF found THEN {} ELSE {"ModuleNotFoundError"})
                        \cup (IF wasm # {} /\ kind = "error" THEN {"ModuleParseError"} ELSE {})
    /\ phase' = "made"
    /\ UNCHANGED <<www, imports, config, assets, dist, exitCode, runs>>

\* the one chunk of the entry, rendered
Bundle(cfg, mods) ==
    LET entry == EntryFile(cfg)
        inl == {n \in DOMAIN mods : mods[n].kind = "inline"}
    IN  Runtime
        \o (IF entry \in DOMAIN mods THEN mods[entry].bytes ELSE MissingStub)
        \o (IF inl = {} THEN << >> ELSE InlineWasm(mods[CHOOSE n \in inl : TRUE].bytes))

\* what the CopyWebpackPlugin patterns add to the compilation
Copied(cfg) ==
    LET pats == cfg.plugins[1].patterns
        have == {i \in 1..Len(pats) : pats[i].from \in DOMAIN www}
    IN  [n \in {pats[i].to : i \in have} |->
            LET i == CHOOSE j \in have : pats[j].to = n
            IN  ApplyPattern(pats[i], www[pats[i].from])]
CopyMissing(cfg) ==
    LET pats == cfg.plugins[1].patterns
    IN  \E i \in 1..Len(pats) : pats[i].from \notin DOMAIN www

\* seal: the chunk is rendered to output.filename, natively handled .wasm
\* modules become assets of their own, and the plugin adds the copied files.
Seal ==
    /\ phase = "made"
    /\ LET wasmAssets == {n \in DOMAIN modules : modules[n].kind = "asset"}
           chunk == [n \in {OutputName(Cfg)} |-> Bundle(Cfg, modules)]
           wasm  == [n \in wasmAssets |-> modules[n].bytes]
       IN  assets' = Overlay(Overlay(chunk, wasm), Copied(Cfg))
    /\ errors' = errors \cup (IF CopyMissing(Cfg) THEN {"CopyError"} ELSE {})
    /\ phase' = "sealed"
    /\ UNCHANGED <<www, imports, config, modules, dist, exitCode, runs>>

\* writing the assets into output.path: the directory is created, and a file
\* that is already there is replaced
EmitAssetsAppend(d, as) ==
    [exists |-> TRUE,
     files |-> [n \in DOMAIN d.files \cup DOMAIN as |->
                  IF n \in DOMAIN as
                  THEN (IF n \in DOMAIN d.files THEN d.files[n] ELSE << >>) \o as[n]
                  ELSE d.files[n]]]
EmitAssets(d, as) == [exists |-> TRUE, files |-> Overlay(d.files, as)]

\* emit: skipped only when the compilation has errors and emitOnErrors is off
Emit ==
    /\ phase = "sealed"
    /\ dist' = IF errors = {} \/ EmitOnErrors(Cfg) THEN EmitAssets(dist, assets) ELSE dist
    /\ phase' = "emitted"
    /\ UNCHANGED <<www, imports, config, modules, assets, errors, exitCode, runs>>

\* the command ends: a compilation with errors makes the exit code non-zero
Exit ==
    /\ phase = "emitted"
    /\ exitCode' = IF errors = {} THEN 0 ELSE 1
    /\ runs' = runs + 1
    /\ phase' = "idle"
    /\ UNCHANGED <<www, imports, config, modules, assets, errors, dist>>

\* The source directory: the entry and the HTML file are each present with some
\* content or missing; the WebAssembly binary is there, imported by the entry or not.
BundleInit ==
    /\ \E files \in SUBSET {"index.js", "index.html"} :
         \E e \in Contents, h \in Contents :
           www = [n \in files \cup {WasmFile} |->
                    IF n = "index.js" THEN e
                    ELSE IF n = "index.html" THEN h ELSE WasmBytes]
    /\ imports \in SUBSET (IF "index.js" \in DOMAIN www THEN {WasmFile} ELSE {})
    /\ config = << >> /\ phase = "idle"
    /\ modules = NoFiles /\ assets = NoFiles /\ errors = {}
    /\ dist = [exists |-> FALSE, files |-> NoFiles]
    /\ exitCode = -1 /\ runs = 0

BundleStep == LoadConfig \/ Make \/ Seal \/ Emit \/ Exit

Init == ImageInit /\ BundleInit
Next ==
    \/ From /\ UNCHANGED bundleVars
    \/ Run /\ UNCHANGED bundleVars
    \/ RunPipe /\ UNCHANGED bundleVars
    \/ User /\ UNCHANGED bundleVars
    \/ Workdir /\ UNCHANGED bundleVars
    \/ Copy /\ UNCHANGED bundleVars
    \/ Env /\ UNCHANGED bundleVars
    \/ LoadConfig /\ UNCHANGED imageVars
    \/ Make /\ UNCHANGED imageVars
    \/ Seal /\ UNCHANGED imageVars
    \/ Emit /\ UNCHANGED imageVars
    \/ Exit /\ UNCHANGED imageVars
Spec == Init /\ [][Next]_vars

(***************************************************************************)
(* Properties                                                              *)
(***************************************************************************)
AtStep(instr) == Building /\ Instr = instr
ToolchainReady ==
    /\ Exists("/home/app/.cargo")
    /\ OnPath(CargoBin)
    /\ "stable" \in installed
HomeTree(p) == p = "/home/app" \/ (Len(p) > 10 /\ SubSeq(p, 1, 10) = "/home/app/")
OwnedBy(u) == {p \in DOMAIN owner : owner[p] = u}
SystemTools == {"python3", "google-chrome-stable", "nodejs"}
RustTools == {"stable", "wasm-pack"}
Succeeded == runs >= 1 /\ exitCode = 0
InputsPresent == {"index.js", "index.html"} \subseteq DOMAIN www
EndsWith(s, t) == Len(s) >= Len(t) /\ SubSeq(s, Len(s) - Len(t) + 1, Len(s)) = t

\* C1: cargo install wasm-pack is reached only with the cargo directory copied
\* in, its bin directory on PATH and the stable toolchain installed, and
\* wasm-pack is never installed in an image that lacks any of them (the step
\* fails there).
C1_WasmPackAfterToolchain ==
    /\ AtStep(CargoWasmPack) => ToolchainReady
    /\ "wasm-pack" \in installed => ToolchainReady
C1_Witness == "wasm-pack" \in installed /\ Recipe[step - 1] = CargoWasmPack

\* C2: the loaded configuration has exactly one of the two ways of handling
\* .wasm imports active: the wasm-loader rule or the native asynchronous
\* WebAssembly flag, never both and never neither.
C2_ExactlyOneWasmStrategy ==
    config # << >> => (LoaderStrategy(Cfg) # NativeStrategy(Cfg))
C2_Witness ==
    /\ config # << >> /\ phase = "made" /\ WasmFile \in DOMAIN modules
    /\ modules[WasmFile].kind = "inline"

\* C3: a failing command of the image build stops the build at its step, and a
\* bundle step that reports errors leaves the output directory as it was.
C3_FailFast ==
    /\ cmdFailed # {} => (build = "failed" /\ Instr.line \in cmdFailed)
    /\ (runs = 0 /\ errors # {}) => ~dist.exists

\* C4: with the entry file absent the bundle step fails and there is no output
\* directory afterwards.
C4_NoOutputWithoutEntry ==
    (runs >= 1 /\ "index.js" \notin DOMAIN www) => (exitCode = 1 /\ ~dist.exists)

\* C5: after a successful bundle step dist/index.html has exactly the bytes of
\* the source index.html.
C5_HtmlCopiedUnchanged ==
    Succeeded =>
        /\ "index.html" \in DOMAIN dist.files
        /\ dist.files["index.html"] = www["index.html"]
C5_Witness == Succeeded /\ phase = "idle" /\ "index.html" \in DOMAIN dist.files

C7_ExactlyBundleAndHtml ==
    Succeeded =>
        /\ dist.exists
        /\ DOMAIN dist.files = {"index.js", "index.html"}
        /\ imports # {} => EndsWith(dist.files["index.js"], InlineWasm(www[WasmFile]))
C7_Witness == Succeeded /\ imports # {} /\ phase = "idle"

\* C8 as stated: in the final image app is in no group but its own and the only
\* path it owns is its working directory.
C8_OwnsOnlyWorkdir ==
    build = "done" => (accounts["app"] = {"app"} /\ OwnedBy("app") = {workdir})
\* C8 amended: app is in no group but its own, everything it owns lies in its
\* home directory /home/app, at every point of the build, and in the final
\* image it owns the working directory.
C8_OwnsOnlyHomeTree ==
    /\ "app" \in DOMAIN accounts => accounts["app"] = {"app"}
    /\ \A p \in OwnedBy("app") : HomeTree(p)
    /\ build = "done" => (workdir = "/home/app/nc2" /\ workdir \in OwnedBy("app"))
C8_Witness ==
    build = "done" /\ OwnedBy("app") =
        {"/home/app", "/home/app/.cargo", "/home/app/.rustup", "/home/app/nc2"}

\* C9 as stated: the account and the working directory exist only in an image
\* that already has the scripting runtime, the browser, the JavaScript runtime,
\* the toolchain and wasm-pack.
C9_UserAfterAllTools ==
    ("app" \in DOMAIN accounts \/ Exists("/home/app/nc2"))
        => (SystemTools \cup RustTools) \subseteq installed
\* C9 amended: the account is created after the scripting runtime, the browser
\* and the JavaScript runtime and before the toolchain and wasm-pack; the
\* working directory is created after all five.
C9_UserBetweenSystemAndRustTools ==
    /\ "app" \in DOMAIN accounts => SystemTools \subseteq installed
    /\ (RustTools \cap installed) # {} => "app" \in DOMAIN accounts
    /\ Exists("/home/app/nc2") => (SystemTools \cup RustTools) \subseteq installed
C9_Witness ==
    "app" \in DOMAIN accounts /\ Exists("/home/app/nc2") /\ "wasm-pack" \in installed

\* C10: a step that needs root runs as root; a step run as app writes only into
\* what app owns; the build never fails for lack of privilege.
C10_NoPrivilegeFailure ==
    /\ failReason # "permission"
    /\ (Building /\ Instr.op = "RUN") =>
          LET sem == Sem(Instr.cmd, user, workdir)
          IN  /\ sem.root => user = "root"
              /\ user # "root" =>
                    /\ \A p \in sem.writes : Exists(p) /\ owner[p] = user
                    /\ \A c \in sem.creates : Exists(c.in) /\ owner[c.in] = user
    /\ (Building /\ Instr.op = "RUNPIPE") => user = "root"
C10_Witness == build = "done" /\ user = "app" /\ "wasm-pack" \in installed

====
